---- MODULE Spec2Model ----
(***************************************************************************)
(* Model of beaconrunner's ASAPValidator                                   *)
(* (src/beaconrunner/validators/ASAPValidator.py): the three decision      *)
(* functions attest, sync_committees and propose of one validator          *)
(* instance, called by a driver that advances the store time, derives the  *)
(* current slot from it, reports received blocks and refreshes duties.     *)
(***************************************************************************)
EXTENDS Integers, Sequences, FiniteSets, TLC

\* ------------------------------------------------------------ bounds
\* Slots 0..MaxSlot are explored.
MaxSlot == 1
\* Values config.SECONDS_PER_SLOT may be configured to: the minimal preset (6),
\* the mainnet preset (12) and a longer slot (15).
ConfiguredSecondsPerSlot == {6, 12, 15}
\* Genesis times of the store.
GenesisTimes == {3}
\* Sync-committee indices a validator may hold.
SyncCommitteeIndices == {0}
\* The known_items bags handed through to the producers.
KnownItems == {"empty", "some"}
\* Python's None in a last_slot_* field.
None == -1

\* ------------------------------------------------------------ configuration
\* specs.SLOTS_PER_EPOCH, scaled down to two slots per epoch.
SLOTS_PER_EPOCH == 2

VARIABLES
    SECONDS_PER_SLOT,   \* config.SECONDS_PER_SLOT, read once at import
    store,              \* self.store: time, genesis_time
    data,               \* self.data: slot, duties, received_block, last_slot_*
    call,               \* the latest call of a decision function: its name, its
                        \* outcome and self.data as it was before the call
    history             \* artifacts returned in the current slot, per kind

vars == <<SECONDS_PER_SLOT, store, data, call, history>>

Slots == 0..MaxSlot
Kinds == {"attest", "sync_committees", "propose"}
NoCall == [op |-> "none", result |-> "None"]

\* ------------------------------------------------------------ shared helpers
\* (self.store.time - self.store.genesis_time) % SECONDS_PER_SLOT
time_in_slot(st, sps) == (st.time - st.genesis_time) % sps

\* The slot the driver derives from the store time.
get_current_slot(st, sps) == (st.time - st.genesis_time) \div sps

\* "return None": no action, nothing written, no producer called.
Declined(d) == [data |-> d, result |-> "None", producer_calls |-> 0]

\* An exception raised by the function itself: nothing written, no producer
\* called, the exception passes to the caller.
Raised(d, exception) == [data |-> d, result |-> exception, producer_calls |-> 0]

\* ------------------------------------------------------------ attest
NotAttestSlot_OnlyFuture(d) == d.current_attest_slot > d.slot

\* "Not the moment to attest"
NotAttestSlot(d) == d.current_attest_slot # d.slot

AttestTooEarly_IgnoresBlock(d, tis) == tis < 4

\* "Too early in the slot / didn't receive block"
AttestTooEarly(d, tis) == ~d.received_block /\ tis < 4

AlreadyAttested_WrongField(d) == d.last_slot_proposed = d.slot

AlreadyAttested_EverAttested(d) == d.last_slot_attested # None

\* "Already attested for this slot"
AlreadyAttested(d) == d.last_slot_attested = d.slot

\* The producer: returns the attestation, which is recorded as this slot's;
\* a failing producer raises and records nothing.
honest_attest(d, known_items, ok) ==
    IF ok
    THEN [data |-> [d EXCEPT !.last_slot_attested = d.slot], result |-> "Attestation",
          producer_calls |-> 1]
    ELSE [data |-> d, result |-> "ProducerFailure", producer_calls |-> 1]

attest_call_RecordsFirst(d, st, sps, known_items, ok) ==
    IF NotAttestSlot(d) THEN Declined(d)
    ELSE IF AttestTooEarly(d, time_in_slot(st, sps)) THEN Declined(d)
    ELSE IF AlreadyAttested(d) THEN Declined(d)
    ELSE [data   |-> [d EXCEPT !.last_slot_attested = d.slot],
          result |-> honest_attest(d, known_items, ok).result,
          producer_calls |-> 1]

attest_call_ProducesFirst(d, st, sps, known_items, ok) ==
    LET r == honest_attest(d, known_items, ok)
        discarded == [data |-> r.data, result |-> "None", producer_calls |-> 1] IN
    IF NotAttestSlot(d) THEN discarded
    ELSE IF AttestTooEarly(d, time_in_slot(st, sps)) THEN discarded
    ELSE IF AlreadyAttested(d) THEN discarded
    ELSE r

attest_call_ProducesTwice(d, st, sps, known_items, ok) ==
    IF NotAttestSlot(d) THEN Declined(d)
    ELSE IF AttestTooEarly(d, time_in_slot(st, sps)) THEN Declined(d)
    ELSE IF AlreadyAttested(d) THEN Declined(d)
    ELSE LET first == honest_attest(d, known_items, ok)
             again == honest_attest(first.data, known_items, ok) IN
         [again EXCEPT !.producer_calls = first.producer_calls + again.producer_calls]

attest_call(d, st, sps, known_items, ok) ==
    IF NotAttestSlot(d) THEN Declined(d)
    ELSE IF AttestTooEarly(d, time_in_slot(st, sps)) THEN Declined(d)
    ELSE IF AlreadyAttested(d) THEN Declined(d)
    ELSE honest_attest(d, known_items, ok)

\* ------------------------------------------------------------ sync_committees
NotInSyncCommittee_SlotGated(d) ==
    Cardinality(d.current_sync_committee) = 0 \/ d.current_attest_slot # d.slot

\* "Not the moment to attest": no sync-committee membership
NotInSyncCommittee(d) == Cardinality(d.current_sync_committee) = 0

\* "Too early in the slot / didn't receive block"
SyncTooEarly(d, tis) == ~d.received_block /\ tis < 4

AlreadySigned_WrongField(d) == d.last_slot_attested = d.slot

\* "Already attested for this slot": already signed for this slot
AlreadySigned(d) == d.last_slot_sync_committee = d.slot

honest_sync_committee(d, known_items, ok) ==
    IF ok
    THEN [data |-> [d EXCEPT !.last_slot_sync_committee = d.slot], result |-> "Bundles",
          producer_calls |-> 1]
    ELSE [data |-> d, result |-> "ProducerFailure", producer_calls |-> 1]

sync_committees_call_AttestProducer(d, st, sps, known_items, ok) ==
    IF NotInSyncCommittee(d) THEN Declined(d)
    ELSE IF SyncTooEarly(d, time_in_slot(st, sps)) THEN Declined(d)
    ELSE IF AlreadySigned(d) THEN Declined(d)
    ELSE honest_attest(d, known_items, ok)

sync_committees_call(d, st, sps, known_items, ok) ==
    IF NotInSyncCommittee(d) THEN Declined(d)
    ELSE IF SyncTooEarly(d, time_in_slot(st, sps)) THEN Declined(d)
    ELSE IF AlreadySigned(d) THEN Declined(d)
    ELSE honest_sync_committee(d, known_items, ok)

\* ------------------------------------------------------------ propose
\* Whether index self.data.slot % SLOTS_PER_EPOCH exists in the list; indexing
\* a Python list past its end raises IndexError.
ProposerDutyInRange(d) ==
    (d.slot % SLOTS_PER_EPOCH) + 1 \in DOMAIN d.current_proposer_duties

ProposerDuty_NextSlot(d) == d.current_proposer_duties[((d.slot + 1) % SLOTS_PER_EPOCH) + 1]

\* self.data.current_proposer_duties[self.data.slot % SLOTS_PER_EPOCH]
\* (Python indexes from 0, the sequence here from 1)
ProposerDuty(d) == d.current_proposer_duties[(d.slot % SLOTS_PER_EPOCH) + 1]

AlreadyProposed_WrongField(d) == d.last_slot_attested = d.slot

\* "Already proposed for this slot"
AlreadyProposed(d) == d.last_slot_proposed = d.slot

honest_propose(d, known_items, ok) ==
    IF ok
    THEN [data |-> [d EXCEPT !.last_slot_proposed = d.slot], result |-> "Block",
          producer_calls |-> 1]
    ELSE [data |-> d, result |-> "ProducerFailure", producer_calls |-> 1]

propose_call_WaitsForBlock(d, known_items, ok) ==
    IF ~ProposerDutyInRange(d) THEN Raised(d, "IndexError")
    ELSE IF ~ProposerDuty(d) THEN Declined(d)
    ELSE IF ~d.received_block THEN Declined(d)
    ELSE IF AlreadyProposed(d) THEN Declined(d)
    ELSE honest_propose(d, known_items, ok)

propose_call_SwallowsIndexError(d, known_items, ok) ==
    IF ~ProposerDutyInRange(d) THEN Declined(d)
    ELSE IF ~ProposerDuty(d) THEN Declined(d)
    ELSE IF AlreadyProposed(d) THEN Declined(d)
    ELSE honest_propose(d, known_items, ok)

propose_call_ResetsWhenOffDuty(d, known_items, ok) ==
    IF ~ProposerDutyInRange(d) THEN Raised(d, "IndexError")
    ELSE IF ~ProposerDuty(d)
         THEN [Declined(d) EXCEPT !.data = [d EXCEPT !.last_slot_proposed = None]]
    ELSE IF AlreadyProposed(d) THEN Declined(d)
    ELSE honest_propose(d, known_items, ok)

propose_call(d, known_items, ok) ==
    IF ~ProposerDutyInRange(d) THEN Raised(d, "IndexError")
    ELSE IF ~ProposerDuty(d) THEN Declined(d)
    ELSE IF AlreadyProposed(d) THEN Declined(d)
    ELSE honest_propose(d, known_items, ok)

\* ------------------------------------------------------------ state
DutySets ==
    [current_attest_slot : Slots,
     current_proposer_duties : [1..SLOTS_PER_EPOCH -> BOOLEAN],
     current_sync_committee : SUBSET SyncCommitteeIndices]

Init ==
    /\ SECONDS_PER_SLOT \in ConfiguredSecondsPerSlot
    /\ \E g \in GenesisTimes : store = [time |-> g, genesis_time |-> g]
    /\ \E duty \in DutySets :
          data = [slot |-> 0,
                  current_attest_slot |-> duty.current_attest_slot,
                  current_proposer_duties |-> duty.current_proposer_duties,
                  current_sync_committee |-> duty.current_sync_committee,
                  received_block |-> FALSE,
                  last_slot_attested |-> None,
                  last_slot_proposed |-> None,
                  last_slot_sync_committee |-> None]
    /\ call = NoCall
    /\ history = [k \in Kinds |-> 0]

\* One more artifact of kind k returned in the current slot (counted up to 2).
Logged(h, k) == [h EXCEPT ![k] = IF @ < 2 THEN @ + 1 ELSE @]

\* ------------------------------------------------------------ the decision calls
Attest(ok) ==
    \E known_items \in KnownItems :
        LET r == attest_call(data, store, SECONDS_PER_SLOT, known_items, ok) IN
        /\ data' = r.data
        /\ call' = [op |-> "attest", result |-> r.result,
                    before |-> data, producer_calls |-> r.producer_calls]
        /\ history' = IF r.result = "Attestation"
                      THEN Logged(history, "attest") ELSE history
        /\ UNCHANGED <<SECONDS_PER_SLOT, store>>

SyncCommittees(ok) ==
    \E known_items \in KnownItems :
        LET r == sync_committees_call(data, store, SECONDS_PER_SLOT, known_items, ok) IN
        /\ data' = r.data
        /\ call' = [op |-> "sync_committees", result |-> r.result,
                    before |-> data, producer_calls |-> r.producer_calls]
        /\ history' = IF r.result = "Bundles"
                      THEN Logged(history, "sync_committees") ELSE history
        /\ UNCHANGED <<SECONDS_PER_SLOT, store>>

Propose(ok) ==
    \E known_items \in KnownItems :
        LET r == propose_call(data, known_items, ok) IN
        /\ data' = r.data
        /\ call' = [op |-> "propose", result |-> r.result,
                    before |-> data, producer_calls |-> r.producer_calls]
        /\ history' = IF r.result = "Block"
                      THEN Logged(history, "propose") ELSE history
        /\ UNCHANGED <<SECONDS_PER_SLOT, store>>

attest == Attest(TRUE)
sync_committees == SyncCommittees(TRUE)
propose == Propose(TRUE)

\* ------------------------------------------------------------ the driver
\* One second passes; the slot follows the store time, and a new slot has no
\* block and no artifact yet.
tick ==
    LET st == [store EXCEPT !.time = @ + 1]
        s  == get_current_slot(st, SECONDS_PER_SLOT) IN
    /\ s <= MaxSlot
    /\ store' = st
    /\ data' = [data EXCEPT !.slot = s,
                            !.received_block = IF s # data.slot THEN FALSE ELSE @]
    /\ call' = NoCall
    /\ history' = IF s # data.slot THEN [k \in Kinds |-> 0] ELSE history
    /\ UNCHANGED SECONDS_PER_SLOT

\* A valid block for the current slot is observed.
receive_block ==
    /\ ~data.received_block
    /\ data' = [data EXCEPT !.received_block = TRUE]
    /\ call' = NoCall
    /\ UNCHANGED <<SECONDS_PER_SLOT, store, history>>

\* The duty provider loads a new duty assignment, one duty kind at a time.
refresh_attest_duty ==
    \E a \in Slots :
        /\ a # data.current_attest_slot
        /\ data' = [data EXCEPT !.current_attest_slot = a]
        /\ call' = NoCall
        /\ UNCHANGED <<SECONDS_PER_SLOT, store, history>>

refresh_proposer_duties ==
    \E p \in [1..SLOTS_PER_EPOCH -> BOOLEAN] :
        /\ p # data.current_proposer_duties
        /\ data' = [data EXCEPT !.current_proposer_duties = p]
        /\ call' = NoCall
        /\ UNCHANGED <<SECONDS_PER_SLOT, store, history>>

refresh_sync_committee ==
    \E c \in SUBSET SyncCommitteeIndices :
        /\ c # data.current_sync_committee
        /\ data' = [data EXCEPT !.current_sync_committee = c]
        /\ call' = NoCall
        /\ UNCHANGED <<SECONDS_PER_SLOT, store, history>>

Next ==
    \/ attest
    \/ sync_committees
    \/ propose
    \/ tick
    \/ receive_block
    \/ refresh_attest_duty
    \/ refresh_proposer_duties
    \/ refresh_sync_committee

Spec == Init /\ [][Next]_vars

\* ------------------------------------------------------------ failing producers
\* The guards pass and the producer raises.
attest_producer_fails == Attest(FALSE) /\ call'.result = "ProducerFailure"
sync_committees_producer_fails == SyncCommittees(FALSE) /\ call'.result = "ProducerFailure"
propose_producer_fails == Propose(FALSE) /\ call'.result = "ProducerFailure"

NextFail ==
    \/ Next
    \/ attest_producer_fails
    \/ sync_committees_producer_fails
    \/ propose_producer_fails

SpecFail == Init /\ [][NextFail]_vars

\* ------------------------------------------------------------ invalid duty lists
\* The duty provider loads a proposer duty list shorter than SLOTS_PER_EPOCH.
refresh_short_proposer_duties ==
    \E n \in 0..(SLOTS_PER_EPOCH - 1) : \E p \in [1..n -> BOOLEAN] :
        /\ p # data.current_proposer_duties
        /\ data' = [data EXCEPT !.current_proposer_duties = p]
        /\ call' = NoCall
        /\ UNCHANGED <<SECONDS_PER_SLOT, store, history>>

NextInvalid ==
    \/ Next
    \/ refresh_short_proposer_duties

SpecInvalid == Init /\ [][NextInvalid]_vars

\* ------------------------------------------------------------ properties
\* Seconds elapsed in the current slot.
TimeInSlot == time_in_slot(store, SECONDS_PER_SLOT)

\* C1: within one slot attest returns an attestation at most once; every attest
\* call after the first attestation of the slot returns None.
C1_AtMostOneAttestationPerSlot ==
    /\ history["attest"] <= 1
    /\ (call.op = "attest" /\ call.before.last_slot_attested = data.slot)
          => call.result = "None"

\* A repeat attest call in the attesting slot, with a block received, that is
\* refused because the slot's attestation was already returned.
C1_Witness ==
    /\ call.op = "attest" /\ call.result = "None"
    /\ history["attest"] = 1
    /\ data.current_attest_slot = data.slot
    /\ data.received_block

\* C2: propose returns a block only when the proposer duty of
\* current_slot mod SLOTS_PER_EPOCH is set, and at most once per slot.
C2_AtMostOneBlockPerSlotAndOnlyOnDuty ==
    /\ history["propose"] <= 1
    /\ (call.op = "propose" /\ call.result = "Block")
          => data.current_proposer_duties[(data.slot % SLOTS_PER_EPOCH) + 1]
    /\ (call.op = "propose" /\ call.before.last_slot_proposed = data.slot)
          => call.result = "None"

\* A repeat propose call by the slot's proposer, refused because the slot's
\* block was already returned.
C2_Witness ==
    /\ call.op = "propose" /\ call.result = "None"
    /\ history["propose"] = 1
    /\ data.current_proposer_duties[(data.slot % SLOTS_PER_EPOCH) + 1]

\* C3: within one slot a sync-committee member gets a batch of bundles at most
\* once; every later sync_committees call in that slot returns None.
C3_AtMostOneSyncBatchPerSlot ==
    /\ history["sync_committees"] <= 1
    /\ (call.op = "sync_committees"
        /\ call.before.last_slot_sync_committee = data.slot)
          => call.result = "None"

\* A repeat sync_committees call by a member, with a block received, refused
\* because the slot's batch was already returned.
C3_Witness ==
    /\ call.op = "sync_committees" /\ call.result = "None"
    /\ history["sync_committees"] = 1
    /\ data.current_sync_committee # {}
    /\ data.received_block

\* C4: attest and sync_committees return None whenever no block was received
\* and time_in_slot < SECONDS_PER_SLOT / 3, for every configured
\* SECONDS_PER_SLOT.
C4_TimingGateIsOneThirdOfSlot ==
    (/\ call.op \in {"attest", "sync_committees"}
     /\ ~data.received_block
     /\ 3 * TimeInSlot < SECONDS_PER_SLOT)
        => call.result = "None"

\* C5: in its attesting slot, without a block and not having attested yet, the
\* validator attests as soon as time_in_slot >= SECONDS_PER_SLOT / 3, and
\* last_slot_attested is the current slot afterwards.
C5_AttestsOnceCutoffReached ==
    (/\ call.op = "attest"
     /\ data.current_attest_slot = data.slot
     /\ ~data.received_block
     /\ call.before.last_slot_attested # data.slot
     /\ 3 * TimeInSlot >= SECONDS_PER_SLOT)
        => (call.result = "Attestation" /\ data.last_slot_attested = data.slot)

\* C6: with a block received the timing gate never blocks: attest (in the
\* attesting slot, not yet attested) and sync_committees (member, not yet
\* signed) return an artifact at every time_in_slot.
C6_BlockReceivedFastPath ==
    /\ (/\ call.op = "attest"
        /\ data.received_block
        /\ data.current_attest_slot = data.slot
        /\ call.before.last_slot_attested # data.slot)
          => call.result = "Attestation"
    /\ (/\ call.op = "sync_committees"
        /\ data.received_block
        /\ data.current_sync_committee # {}
        /\ call.before.last_slot_sync_committee # data.slot)
          => call.result = "Bundles"

\* Bundles returned at the very start of a slot, after the slot's attestation
\* was returned there too.
C6_Witness ==
    /\ call.op = "sync_committees" /\ call.result = "Bundles"
    /\ history["attest"] = 1
    /\ data.received_block
    /\ TimeInSlot = 0

\* C7: attest returns None whenever current_attest_slot differs from the
\* current slot, so every attestation is returned in the validator's
\* attesting slot.
C7_AttestOnlyInAttestSlot ==
    (call.op = "attest" /\ data.current_attest_slot # data.slot)
        => call.result = "None"

\* attest refused for want of duty alone: a block is there, the cutoff has
\* passed and nothing was attested in this slot.
C7_Witness ==
    /\ call.op = "attest" /\ call.result = "None"
    /\ data.current_attest_slot # data.slot
    /\ data.received_block
    /\ TimeInSlot >= 4
    /\ data.last_slot_attested # data.slot

\* C8: a duty discharged in slot N is discharged again in slot N+1 whenever the
\* duty and timing guards of the decision function hold in slot N+1.
C8_SlotRolloverResetsEligibility ==
    /\ (/\ call.op = "attest"
        /\ call.before.last_slot_attested # None
        /\ call.before.last_slot_attested = data.slot - 1
        /\ ~NotAttestSlot(data)
        /\ ~AttestTooEarly(data, TimeInSlot))
          => call.result = "Attestation"
    /\ (/\ call.op = "sync_committees"
        /\ call.before.last_slot_sync_committee # None
        /\ call.before.last_slot_sync_committee = data.slot - 1
        /\ ~NotInSyncCommittee(data)
        /\ ~SyncTooEarly(data, TimeInSlot))
          => call.result = "Bundles"
    /\ (/\ call.op = "propose"
        /\ call.before.last_slot_proposed # None
        /\ call.before.last_slot_proposed = data.slot - 1
        /\ ProposerDuty(data))
          => call.result = "Block"

\* An attestation returned in slot N+1 by a validator that attested in slot N
\* and also proposed and signed in slot N.
C8_Witness ==
    /\ call.op = "attest" /\ call.result = "Attestation"
    /\ call.before.last_slot_attested # None
    /\ call.before.last_slot_attested = data.slot - 1
    /\ data.last_slot_proposed = data.slot - 1
    /\ data.last_slot_sync_committee = data.slot - 1

\* C9: a producer failure is what the call ends in, leaves the three
\* last_slot_* fields at their pre-call values, and the same call made again
\* right away reaches the producer again.
C9_ProducerFailureLeavesStateUnchanged ==
    call.result = "ProducerFailure" =>
        /\ data.last_slot_attested = call.before.last_slot_attested
        /\ data.last_slot_proposed = call.before.last_slot_proposed
        /\ data.last_slot_sync_committee = call.before.last_slot_sync_committee
        /\ \A known_items \in KnownItems :
            /\ call.op = "attest" =>
                 attest_call(data, store, SECONDS_PER_SLOT, known_items, TRUE).result
                     = "Attestation"
            /\ call.op = "sync_committees" =>
                 sync_committees_call(data, store, SECONDS_PER_SLOT, known_items, TRUE).result
                     = "Bundles"
            /\ call.op = "propose" =>
                 propose_call(data, known_items, TRUE).result = "Block"

\* The attestation producer failed in a slot in which the validator had
\* attested before the previous slot's end.
C9_Witness ==
    /\ call.op = "attest" /\ call.result = "ProducerFailure"
    /\ data.last_slot_attested # None
    /\ data.last_slot_attested # data.slot

\* C10: propose has no time-in-slot gate: with the proposer duty of the slot
\* set and no block proposed in it yet, propose returns a block at every
\* time_in_slot and for either value of received_block.
C10_ProposeHasNoTimingGate ==
    (/\ call.op = "propose"
     /\ data.current_proposer_duties[(data.slot % SLOTS_PER_EPOCH) + 1]
     /\ call.before.last_slot_proposed # data.slot)
        => call.result = "Block"

\* A block returned at the very start of a slot, before any block was received.
C10_Witness ==
    /\ call.op = "propose" /\ call.result = "Block"
    /\ TimeInSlot = 0
    /\ ~data.received_block

\* The artifact each decision function returns on success.
Artifact == [attest |-> "Attestation", sync_committees |-> "Bundles", propose |-> "Block"]

\* C11: a call that returns None changes no field of self.data (the last_slot_*
\* fields, the duty fields, received_block) and calls no producer.
C11_NoSideEffectOnNone ==
    (call.op \in Kinds /\ call.result = "None")
        => (data = call.before /\ call.producer_calls = 0)

\* propose declined for a slot already proposed in, by a validator that has
\* also attested in this slot.
C11_Witness ==
    /\ call.op = "propose" /\ call.result = "None"
    /\ data.last_slot_proposed = data.slot
    /\ data.last_slot_attested = data.slot

\* C12: a call that returns an artifact has called its producer exactly once
\* and has set its own last_slot_* field to the current slot, leaving every
\* other field, the other two last_slot_* fields among them, as it was.
C12_EmissionRecordsOwnFieldOnly ==
    /\ (call.op \in Kinds /\ call.result \notin {"None", "ProducerFailure", "IndexError"})
          => (call.result = Artifact[call.op] /\ call.producer_calls = 1)
    /\ (call.op = "attest" /\ call.result = "Attestation")
          => data = [call.before EXCEPT !.last_slot_attested = call.before.slot]
    /\ (call.op = "sync_committees" /\ call.result = "Bundles")
          => data = [call.before EXCEPT !.last_slot_sync_committee = call.before.slot]
    /\ (call.op = "propose" /\ call.result = "Block")
          => data = [call.before EXCEPT !.last_slot_proposed = call.before.slot]

\* Bundles returned in slot N+1 by a validator that attested in slot N and has
\* proposed in slot N+1: three different values in the three fields.
C12_Witness ==
    /\ call.op = "sync_committees" /\ call.result = "Bundles"
    /\ data.last_slot_sync_committee = data.slot
    /\ data.last_slot_proposed = data.slot
    /\ data.last_slot_attested = data.slot - 1
    /\ data.last_slot_attested # None
    /\ call.before.last_slot_sync_committee = None

\* ------------------------------------------------------------ one tick, three calls
\* The entry point named op, called on self.data = d.
CallOf(op, d, st, sps, known_items) ==
    CASE op = "attest" -> attest_call(d, st, sps, known_items, TRUE)
      [] op = "sync_committees" -> sync_committees_call(d, st, sps, known_items, TRUE)
      [] op = "propose" -> propose_call(d, known_items, TRUE)

\* The six relative orders of the three entry points.
Orders ==
    {<<"attest", "sync_committees", "propose">>, <<"attest", "propose", "sync_committees">>,
     <<"sync_committees", "attest", "propose">>, <<"sync_committees", "propose", "attest">>,
     <<"propose", "attest", "sync_committees">>, <<"propose", "sync_committees", "attest">>}

\* The three entry points called in the given order within one tick: what
\* each returned and the last_slot_* fields at the end.
RunOrder(order, d, st, sps, known_items) ==
    LET r1 == CallOf(order[1], d, st, sps, known_items)
        r2 == CallOf(order[2], r1.data, st, sps, known_items)
        r3 == CallOf(order[3], r2.data, st, sps, known_items) IN
    [results |-> (order[1] :> r1.result) @@ (order[2] :> r2.result)
                   @@ (order[3] :> r3.result),
     last_slot_attested |-> r3.data.last_slot_attested,
     last_slot_sync_committee |-> r3.data.last_slot_sync_committee,
     last_slot_proposed |-> r3.data.last_slot_proposed]

\* C13: from one validator state and within one tick, the six orders of
\* calling attest, sync_committees and propose give the same three results
\* and the same final last_slot_* fields (each order is compared with the
\* order attest, sync_committees, propose).
C13_OrderIndependentWithinTick ==
    \A known_items \in KnownItems :
        LET first == RunOrder(<<"attest", "sync_committees", "propose">>,
                              data, store, SECONDS_PER_SLOT, known_items) IN
        \A o \in Orders :
            RunOrder(o, data, store, SECONDS_PER_SLOT, known_items) = first

\* The attestation of the slot has just been returned; in the same tick
\* sync_committees and propose still return their artifacts and attest None.
C13_Witness ==
    /\ call.op = "attest" /\ call.result = "Attestation"
    /\ RunOrder(<<"propose", "sync_committees", "attest">>, data, store,
                SECONDS_PER_SLOT, "some").results
         = [attest |-> "None", sync_committees |-> "Bundles", propose |-> "Block"]

\* C14: once a duty was discharged, no step that is not a call of the duty's
\* own decision function (a tick, a received block, a duty refresh, a call of
\* another decision function) changes the duty's last_slot_* field, and while
\* the slot stays the same no step at all moves the field away from the
\* slot: the duty never becomes eligible again for that slot.
C14_ActedIsTerminalForTheSlot ==
    [][/\ (data.last_slot_attested # None /\ call'.op # "attest")
            => data'.last_slot_attested = data.last_slot_attested
       /\ (data.last_slot_sync_committee # None /\ call'.op # "sync_committees")
            => data'.last_slot_sync_committee = data.last_slot_sync_committee
       /\ (data.last_slot_proposed # None /\ call'.op # "propose")
            => data'.last_slot_proposed = data.last_slot_proposed
       /\ data'.slot = data.slot =>
            /\ data.last_slot_attested = data.slot
                 => data'.last_slot_attested = data'.slot
            /\ data.last_slot_sync_committee = data.slot
                 => data'.last_slot_sync_committee = data'.slot
            /\ data.last_slot_proposed = data.slot
                 => data'.last_slot_proposed = data'.slot
      ]_vars

\* The validator attested in this slot; since then its attest duty was moved
\* to another slot, a block came in and propose returned a block.
C14_Witness ==
    /\ history["attest"] = 1
    /\ data.last_slot_attested = data.slot
    /\ data.current_attest_slot # data.slot
    /\ data.received_block
    /\ call.op = "propose" /\ call.result = "Block"

\* C15: sync_committees returns None whenever current_sync_committee is empty;
\* for a member it returns None exactly when the timing gate blocks or the
\* slot was already signed for, so a member is eligible in every slot of its
\* membership, whatever its attesting slot.
C15_SyncCommitteeDutyGating ==
    call.op = "sync_committees" =>
        /\ data.current_sync_committee = {} => call.result = "None"
        /\ data.current_sync_committee # {} =>
             (call.result = "None"
                <=> (\/ SyncTooEarly(data, TimeInSlot)
                     \/ call.before.last_slot_sync_committee = data.slot))

\* A member that signed in slot N gets bundles again in slot N+1, which is not
\* its attesting slot.
C15_Witness ==
    /\ call.op = "sync_committees" /\ call.result = "Bundles"
    /\ call.before.last_slot_sync_committee # None
    /\ call.before.last_slot_sync_committee = data.slot - 1
    /\ data.current_attest_slot # data.slot

\* C16: in the attesting slot every attest call made once a block has been
\* received or one third of the slot has elapsed (time_in_slot >=
\* SECONDS_PER_SLOT / 3) leaves the slot's attestation produced, by this call
\* or by an earlier one of the slot: the attestation comes at the first such
\* tick and within the slot.
C16_AttestsAtFirstEligibleTick ==
    (/\ call.op = "attest"
     /\ data.current_attest_slot = data.slot
     /\ (data.received_block \/ 3 * TimeInSlot >= SECONDS_PER_SLOT))
        => (data.last_slot_attested = data.slot /\ history["attest"] = 1)

\* C17: when current_proposer_duties is too short to have an entry at index
\* current_slot mod SLOTS_PER_EPOCH, propose ends in an error passed to the
\* caller: it returns neither None nor a block, calls no producer and leaves
\* last_slot_proposed, like all of self.data, unchanged.
C17_ShortDutyListAbortsPropose ==
    (/\ call.op = "propose"
     /\ Len(call.before.current_proposer_duties) < SLOTS_PER_EPOCH
     /\ Len(call.before.current_proposer_duties) <= call.before.slot % SLOTS_PER_EPOCH)
        => /\ call.result = "IndexError"
           /\ call.producer_calls = 0
           /\ data.last_slot_proposed = call.before.last_slot_proposed
           /\ data = call.before

\* The validator proposed in slot 0 from a one-entry duty list; in slot 1 the
\* list has no entry and propose raises.
C17_Witness ==
    /\ call.op = "propose" /\ call.result = "IndexError"
    /\ data.current_proposer_duties = <<TRUE>>
    /\ data.slot = 1
    /\ data.last_slot_proposed = 0

\* The three slashing-protection fields of self.data.
LastSlots(d) == <<d.last_slot_attested, d.last_slot_sync_committee, d.last_slot_proposed>>

\* C18: with the current slot only advancing, each last_slot_* field is None
\* or a slot up to the current one in every reachable state, and no step
\* lowers a field: it moves from None to a slot or from a slot to a later one.
C18_LastSlotsBoundedAndMonotonic ==
    /\ [](\A i \in 1..3 :
            LastSlots(data)[i] = None
              \/ (LastSlots(data)[i] >= 0 /\ LastSlots(data)[i] <= data.slot))
    /\ [][/\ data'.slot >= data.slot
          /\ \A i \in 1..3 :
               /\ LastSlots(data)[i] # None => LastSlots(data')[i] # None
               /\ LastSlots(data')[i] >= LastSlots(data)[i]
         ]_vars

\* In slot N+1: attested in slot N and again in slot N+1 (a slot to a later
\* slot), proposed in slot N only, never signed for a sync committee.
C18_Witness ==
    /\ call.op = "attest" /\ call.result = "Attestation"
    /\ call.before.last_slot_attested # None
    /\ data.last_slot_attested = data.slot
    /\ data.last_slot_attested > call.before.last_slot_attested
    /\ data.last_slot_proposed # None
    /\ data.last_slot_proposed < data.slot
    /\ data.last_slot_sync_committee = None

====
